---- MODULE Spec2Model ----
(***************************************************************************)
(* Model of the two _find16 kernels of kelindar/roaring:                   *)
(*   codegen/simd_avx.c     AVX2 kernel: small-array bypass, 16-lane       *)
(*                          strided loop, scalar tail loop                 *)
(*   codegen/simd_avx512.c  AVX-512 kernel: auto-vectorised equality scan  *)
(*                                                                         *)
(* Integers of the model checker are 32 bits wide, so                      *)
(*   - the uint64 size is the record [hi, lo] standing for hi * 2^31 + lo  *)
(*     with lo in 0 .. 2^31 - 1;                                           *)
(*   - the uint32 byte mask is a bit vector over 0 .. 31;                  *)
(*   - a __m256i register is a function from lane 0 .. 15 to the 16-bit    *)
(*     pattern of the lane (0 .. 65535).                                   *)
(* The array is its materialised prefix `input`; when size exceeds         *)
(* Len(input) the last element of the prefix repeats up to index size - 1  *)
(* (a sorted array of 2^31 uint16 values necessarily ends in long runs).   *)
(***************************************************************************)
EXTENDS Integers, Sequences, FiniteSets, TLC

VARIABLES variant, input, target, size, result, pc, i, j, mask, reads, loads, ret

vars == <<variant, input, target, size, result, pc, i, j, mask, reads, loads, ret>>

(* ------------------------------ bounds -------------------------------- *)

\* longest array handed to the AVX2 kernel (two full strides and a tail)
MaxLen == 33
\* longest materialised array handed to the AVX-512 kernel
MaxLen512 == 4
\* largest multiple of 2^31 in a size handed to the AVX-512 kernel
MaxHi == 2
\* largest low part of a size above 2^31 handed to the AVX-512 kernel
MaxLo == 2

\* element values: below, at and above the sign bit of a 16-bit lane
ValSeq == <<5, 32768, 40000>>
Vals == {ValSeq[n] : n \in 1..Len(ValSeq)}
\* keys: the element values, one between the halves and one above all elements
Keys == Vals \cup {6, 65535}
\* what the caller's result slot holds before the call
InitResults == {99}

(* --------------------------- machine integers -------------------------- *)

Lanes == 16
Half16 == 32768
Mod16 == 65536
Pow30 == 1073741824

Min(a, b) == IF a < b THEN a ELSE b

\* uint64 value of a small natural
U64(n) == [hi |-> 0, lo |-> n]

\* idx < s for a uint64 s and an index below 2^31
IdxLess(idx, s) == s.hi > 0 \/ idx < s.lo

\* s == 0 for a uint64 s
IsZero64(s) == s.hi = 0 /\ s.lo = 0

\* s <= n for a uint64 s and a small natural n
LeqSmall(s, n) == s.hi = 0 /\ s.lo <= n

\* (int)size: the low 32 bits read as a two's complement int
ToInt32(s) == IF s.hi % 2 = 1 THEN (s.lo - Pow30) - Pow30 ELSE s.lo

\* (int16_t)x read back as a signed value
Signed16(x) == IF x >= Half16 THEN x - Mod16 ELSE x

\* bit b of a 16-bit pattern
Bit16(x, b) == (x \div (2 ^ b)) % 2

\* input[idx] for an index inside the array
At(idx) == input[Min(idx + 1, Len(input))]

\* what a read past the end of the array can return
Garbage == {0, 65535}

\* the values a read of input[idx] can return
Fetch(idx) == IF IdxLess(idx, size) THEN {At(idx)} ELSE Garbage

(* ------------------------------ intrinsics ----------------------------- *)

\* _mm256_set1_epi16
Set1Epi16(x) == [l \in 0..(Lanes - 1) |-> x % Mod16]

\* the registers _mm256_loadu_si256((__m256i*)(input + base)) can return
LoadU(base) ==
    IF IdxLess(base + Lanes - 1, size)
      THEN {[l \in 0..(Lanes - 1) |-> At(base + l)]}
      ELSE {[l \in 0..(Lanes - 1) |-> IF IdxLess(base + l, size) THEN At(base + l) ELSE g[l]] :
               g \in [0..(Lanes - 1) -> Garbage]}

\* one lane of _mm256_cmpgt_epi16: a > b as signed 16-bit integers
CmpGt16(a, b) == IF Signed16(a) > Signed16(b) THEN Mod16 - 1 ELSE 0

\* _mm256_cmpgt_epi16(a, b)
CmpGtEpi16(a, b) == [l \in 0..(Lanes - 1) |-> CmpGt16(a[l], b[l])]

\* one lane of (~x) & y
RECURSIVE AndNotBits(_, _, _)
AndNotBits(x, y, n) ==
    IF n = 0 THEN 0
    ELSE (1 - (x % 2)) * (y % 2) + 2 * AndNotBits(x \div 2, y \div 2, n - 1)

AndNot16(x, y) == AndNotBits(x, y, 16)

\* _mm256_andnot_si256(a, b)
AndNotSi256(a, b) == [l \in 0..(Lanes - 1) |-> AndNot16(a[l], b[l])]

\* _mm256_movemask_epi8: the top bit of each of the 32 bytes
MoveMaskEpi8(v) ==
    [b \in 0..(2 * Lanes - 1) |->
        IF b % 2 = 0 THEN Bit16(v[b \div 2], 7) ELSE Bit16(v[b \div 2], 15)]

ZeroMask == [b \in 0..(2 * Lanes - 1) |-> 0]

\* mask != 0
MaskNonZero(m) == m # ZeroMask

\* a scan that shifts by j instead of j * 2
MaskPairShiftByJ(m, jj) == m[jj] = 1 \/ m[jj + 1] = 1

\* (mask >> (j * 2)) & 0x3
MaskPair(m, jj) == m[2 * jj] = 1 \/ m[2 * jj + 1] = 1

\* the compare of the strided loop: cmp_ge for the loaded register data
CmpGe(data) ==
    LET target_vec == Set1Epi16(target)
        cmp_lt == CmpGtEpi16(target_vec, data)
    IN  AndNotSi256(cmp_lt, Set1Epi16(Mod16 - 1))

\* a strided loop that runs while any element remains
StrideCondAnyLeft(idx, s) == IdxLess(idx, s)

\* i + 15 < size
StrideCond(idx, s) == IdxLess(idx + 15, s)

\* a loop that also takes the index equal to the bound
LoopCond512Inclusive(idx, s) == idx <= ToInt32(s)

\* i < (int)size
LoopCond512(idx, s) == idx < ToInt32(s)

(* -------------------------------- inputs ------------------------------- *)

\* ascending arrays of length n over Vals
SortedArrays(n) ==
    LET NV == Len(ValSeq)
        Cuts == {c \in [1..(NV - 1) -> 0..n] : \A m \in 1..(NV - 2) : c[m] <= c[m + 1]}
    IN  {[k \in 1..n |-> ValSeq[1 + Cardinality({m \in 1..(NV - 1) : c[m] < k})]] : c \in Cuts}

\* the two kernels of the repository
Variants == {"avx2", "avx512"}

\* a call of the kernel v on a sorted array of n materialised elements and
\* of size h * 2^31 + l (h = 0: the size is n)
Call(v, n, h, l) ==
    /\ variant = v
    /\ target \in Keys
    /\ result \in InitResults
    /\ input \in SortedArrays(n)
    /\ size = IF h = 0 THEN U64(n) ELSE [hi |-> h, lo |-> l]
    /\ pc = "entry"
    /\ i = 0
    /\ j = 0
    /\ mask = ZeroMask
    /\ reads = <<>>
    /\ loads = {}
    /\ ret = "none"

Init ==
    \E v \in Variants, n \in 0..MaxLen, h \in 0..MaxHi, l \in 0..MaxLo :
        /\ v = "avx2" => h = 0
        /\ v = "avx512" => n <= MaxLen512
        /\ h = 0 => l = 0
        /\ h > 0 => n >= 1
        /\ Call(v, n, h, l)

\* the AVX2 kernel without its bypass (lines 14-22 removed), called on the
\* lengths the bypass takes
InitFull == \E n \in 1..Lanes : Call("avx2_full", n, 0, 0)

(* ----------------------------- AVX2 kernel ----------------------------- *)

\* *result = -1; the empty check; the choice between bypass and vector path.
\* "avx2_full" is the kernel without the bypass of lines 14-22.
Avx2Entry ==
    /\ pc = "entry"
    /\ variant \in {"avx2", "avx2_full"}
    /\ result' = -1
    /\ i' = 0
    /\ IF IsZero64(size)
         THEN pc' = "done" /\ ret' = "empty"
         ELSE IF variant = "avx2" /\ LeqSmall(size, 16)
                THEN pc' = "small" /\ ret' = ret
                ELSE pc' = "stride" /\ ret' = ret
    /\ UNCHANGED <<variant, input, target, size, j, mask, reads, loads>>

\* one iteration of a scalar loop: for (; i < size; i++) if (input[i] >= target)
ScalarStep(site) ==
    IF IdxLess(i, size)
      THEN /\ reads' = Append(reads, i)
           /\ \E v \in Fetch(i) :
                IF v >= target
                  THEN result' = i /\ pc' = "done" /\ ret' = site /\ i' = i
                  ELSE result' = result /\ pc' = pc /\ ret' = ret /\ i' = i + 1
      ELSE /\ pc' = "done"
           /\ UNCHANGED <<reads, result, ret, i>>

\* the scalar search of small arrays
Avx2SmallStep ==
    /\ pc = "small"
    /\ ScalarStep("small")
    /\ UNCHANGED <<variant, input, target, size, j, mask, loads>>

\* one iteration of the strided loop up to the mask test
Avx2Stride ==
    /\ pc = "stride"
    /\ IF StrideCond(i, size)
         THEN /\ reads' = reads \o [l \in 1..Lanes |-> i + l - 1]
              /\ loads' = loads \cup {i}
              /\ \E data \in LoadU(i) : mask' = MoveMaskEpi8(CmpGe(data))
              /\ j' = 0
              /\ IF MaskNonZero(mask')
                   THEN pc' = "scan" /\ i' = i
                   ELSE pc' = "stride" /\ i' = i + 16
         ELSE /\ pc' = "tail"
              /\ UNCHANGED <<reads, loads, mask, j, i>>
    /\ UNCHANGED <<variant, input, target, size, result, ret>>

\* one iteration of the scan for the first set bit
Avx2ScanStep ==
    /\ pc = "scan"
    /\ IF j < 16
         THEN IF MaskPair(mask, j)
                THEN result' = i + j /\ pc' = "done" /\ ret' = "scan"
                     /\ UNCHANGED <<i, j>>
                ELSE j' = j + 1 /\ UNCHANGED <<result, pc, ret, i>>
         ELSE i' = i + 16 /\ pc' = "stride" /\ UNCHANGED <<result, ret, j>>
    /\ UNCHANGED <<variant, input, target, size, mask, reads, loads>>

\* the remaining elements
Avx2TailStep ==
    /\ pc = "tail"
    /\ ScalarStep("tail")
    /\ UNCHANGED <<variant, input, target, size, j, mask, loads>>

(* ---------------------------- AVX-512 kernel --------------------------- *)

Avx512Entry ==
    /\ pc = "entry"
    /\ variant = "avx512"
    /\ result' = -1
    /\ i' = 0
    /\ pc' = "loop"
    /\ UNCHANGED <<variant, input, target, size, j, mask, reads, loads, ret>>

Avx512Step ==
    /\ pc = "loop"
    /\ IF LoopCond512(i, size)
         THEN /\ reads' = Append(reads, i)
              /\ \E v \in Fetch(i) :
                   IF v = target
                     THEN result' = i /\ pc' = "done" /\ ret' = "loop" /\ i' = i
                     ELSE result' = result /\ pc' = pc /\ ret' = ret /\ i' = i + 1
         ELSE /\ pc' = "done"
              /\ UNCHANGED <<reads, result, ret, i>>
    /\ UNCHANGED <<variant, input, target, size, j, mask, loads>>

Next ==
    \/ Avx2Entry
    \/ Avx2SmallStep
    \/ Avx2Stride
    \/ Avx2ScanStep
    \/ Avx2TailStep
    \/ Avx512Entry
    \/ Avx512Step

Spec == Init /\ [][Next]_vars

NextFull ==
    \/ Avx2Entry
    \/ Avx2Stride
    \/ Avx2ScanStep
    \/ Avx2TailStep

SpecFull == InitFull /\ [][NextFull]_vars

(* ------------------------ the kernels as functions --------------------- *)

\* the scalar search of lines 15-21 from index idx on: the value left in *result
RECURSIVE ScalarScan(_)
ScalarScan(idx) ==
    IF IdxLess(idx, size)
      THEN IF At(idx) >= target THEN idx ELSE ScalarScan(idx + 1)
      ELSE -1

(* ------------------------------ properties ----------------------------- *)

\* indices of the materialised array; every value of the array occurs there first
Indices == 0..(Len(input) - 1)

Least(S) == CHOOSE x \in S : \A y \in S : x <= y

\* naive scan: the smallest index whose element is >= target (unsigned), or -1
LowerBound ==
    LET S == {idx \in Indices : At(idx) >= target}
    IN  IF S = {} THEN -1 ELSE Least(S)

\* the smallest index whose element equals target, or -1
FirstEq ==
    LET S == {idx \in Indices : At(idx) = target}
    IN  IF S = {} THEN -1 ELSE Least(S)

\* the register loaded by an in-bounds stride at base
Data(base) == [l \in 0..(Lanes - 1) |-> At(base + l)]

\* lanes of the stride at base whose comparison came out true
TrueLanes(base) == {l \in 0..(Lanes - 1) : CmpGe(Data(base))[l] # 0}

\* position of the least-significant set bit of a non-zero mask
Ctz(m) == Least({b \in DOMAIN m : m[b] = 1})

Returned == pc = "done"

\* C1: the AVX2 kernel leaves in *result what a naive unsigned scan returns:
\* the smallest index i with A[i] >= k, or -1, for every sorted array and
\* every length, lengths above 16 included.
C1_Avx2EqualsNaiveScan ==
    (variant = "avx2" /\ Returned) => result = LowerBound

\* C2: all-less: when every element is unsigned-less than the key, the AVX2
\* kernel leaves *result = -1.
C2_AllLessGivesSentinel ==
    (variant = "avx2" /\ Returned /\ \A idx \in Indices : At(idx) < target)
        => result = -1

\* C3: all-greater-or-equal: when the array is not empty and every element is
\* unsigned >= the key, the AVX2 kernel sets *result = 0.
C3_AllGeqGivesZero ==
    (variant = "avx2" /\ Returned /\ Len(input) > 0
        /\ \A idx \in Indices : At(idx) >= target)
        => result = 0

\* C4: empty input: with size = 0 both kernels set *result to -1 for every
\* key and read no element of the array.
C4_EmptyInput ==
    (variant \in {"avx2", "avx512"} /\ IsZero64(size))
        => /\ reads = <<>>
           /\ loads = {}
           /\ pc # "entry" => result = -1
           /\ Returned => ret \in {"empty", "none"}

C4_Witness ==
    /\ variant = "avx512" /\ IsZero64(size) /\ Returned
    /\ result = -1 /\ reads = <<>>

\* C5: the AVX-512 kernel, for every uint64 size (also those that do not fit
\* a signed 32-bit int), examines the indices 0..size-1 in order and sets
\* *result to the smallest index whose element equals the key, or to -1.
C5_Avx512FirstEqual ==
    (variant = "avx512" /\ Returned) => result = FirstEq

\* C6: for a sorted array in which the key occurs the AVX-512 kernel returns
\* the lower-bound index; when the key does not occur but some element is
\* greater, the AVX-512 kernel returns -1 and the lower bound is an index.
C6_ConditionalEquivalence ==
    (variant = "avx512" /\ Returned)
        => /\ (\E idx \in Indices : At(idx) = target) => result = LowerBound
           /\ ((\A idx \in Indices : At(idx) # target)
                 /\ (\E idx \in Indices : At(idx) > target))
                 => (result = -1 /\ LowerBound >= 0)

\* C7: for lengths 1..16 the vector path without the bypass produces the
\* result of the scalar bypass branch, length 16 (one whole stride) included
\* (checked under SpecFull).
C7_BypassIsNoSemanticChange ==
    (variant = "avx2_full" /\ Returned) => result = ScalarScan(0)

\* C8: in every stride the code has loaded, each lane of cmp_ge is all-ones
\* exactly when element >= key as unsigned integers and all-zeros otherwise.
C8_LaneIsUnsignedGeq ==
    \A base \in loads : \A l \in 0..(Lanes - 1) :
        CmpGe(Data(base))[l] = IF At(base + l) >= target THEN Mod16 - 1 ELSE 0

\* C9: each lane contributes two equal adjacent mask bits; on a non-zero mask
\* the scan over j returns i + j for the lowest lane j whose comparison was
\* true, which is the stride base plus (lowest set bit position) \div 2; the
\* scan never falls through to the next stride.
C9_MaskToIndex ==
    /\ \A l \in 0..(Lanes - 1) : mask[2 * l] = mask[2 * l + 1]
    /\ pc = "scan" =>
          LET T == TrueLanes(i)
          IN  /\ MaskNonZero(mask)
              /\ j < Lanes
              /\ T # {}
              /\ j <= Least(T)
    /\ ret = "scan" =>
          /\ result = i + Least(TrueLanes(i))
          /\ result = i + (Ctz(mask) \div 2)

C9_Witness ==
    /\ variant = "avx2" /\ Returned /\ ret = "scan"
    /\ i = Lanes /\ result > i + 1

\* C10: every index the AVX2 kernel reads is below size: a vector load at base
\* b has b + 16 <= size, the strided loop leaves at most 15 elements, the
\* loops read the indices in order without a gap up to the first match, and a
\* non-negative *result is below size.
C10_BoundsSafety ==
    variant = "avx2" =>
        /\ \A n \in 1..Len(reads) : reads[n] = n - 1 /\ IdxLess(reads[n], size)
        /\ \A b \in loads : IdxLess(b + Lanes - 1, size)
        /\ pc = "tail" => (size.hi = 0 /\ i <= size.lo /\ size.lo - i <= Lanes - 1)
        /\ (pc # "entry" /\ result >= 0) => IdxLess(result, size)
        /\ (Returned /\ ret \in {"small", "tail"}) => result = reads[Len(reads)]
        /\ (Returned /\ ret = "none") => (size.hi = 0 /\ Len(reads) = size.lo)

C10_Witness ==
    /\ variant = "avx2" /\ Returned /\ ret = "tail"
    /\ Cardinality(loads) = 2 /\ result = Len(input) - 1

====
